---------------------------- MODULE Spec2Model ----------------------------
(***************************************************************************)
(* bevy_color_blindness: the mode table, the mode cycle, the per-camera    *)
(* effect state with its change-driven update system, and the post-process *)
(* render-graph node that consumes the uniform.                            *)
(*                                                                         *)
(* Matrix coefficients are the decimal literals of the source scaled by    *)
(* 10^5 (0.56667 is 56667, 0.3333 is 33330).                               *)
(***************************************************************************)
EXTENDS Integers, Sequences, FiniteSets, TLC

\* ------------------------------------------------------------------------
\* Bounds
\* ------------------------------------------------------------------------

\* how many times the table specification applies cycle() to a starting mode
MaxCycles == 18

\* how many times the scripted application calls cycle() while disabled
MaxScriptCycles == 10

\* ------------------------------------------------------------------------
\* ColorBlindnessMode, ColorBlindnessPercentages            (src/src/lib.rs)
\* ------------------------------------------------------------------------

ColorBlindnessMode ==
    { "Normal", "Protanopia", "Protanomaly", "Deuteranopia", "Deuteranomaly",
      "Tritanopia", "Tritanomaly", "Achromatopsia", "Achromatomaly" }

\* ColorBlindnessPercentages::new(red, green, blue)
New(red, green, blue) == << red, green, blue >>

\* #[derive(Default)] on ColorBlindnessPercentages: three Vec3::ZERO
DefaultPercentages == New(<< 0, 0, 0 >>, << 0, 0, 0 >>, << 0, 0, 0 >>)

\* a plausible slip in the table: the Tritanomaly red row "tidied" to .33333
percentagesTidied(self) ==
    CASE self = "Normal" ->
           New(<< 100000, 0, 0 >>, << 0, 100000, 0 >>, << 0, 0, 100000 >>)
      [] self = "Protanopia" ->
           New(<< 56667, 43333, 0 >>, << 55833, 44167, 0 >>, << 0, 24167, 75833 >>)
      [] self = "Protanomaly" ->
           New(<< 81667, 18333, 0 >>, << 33333, 66667, 0 >>, << 0, 12500, 87500 >>)
      [] self = "Deuteranopia" ->
           New(<< 62500, 37500, 0 >>, << 70000, 30000, 0 >>, << 0, 30000, 70000 >>)
      [] self = "Deuteranomaly" ->
           New(<< 80000, 20000, 0 >>, << 25833, 74167, 0 >>, << 0, 14167, 85833 >>)
      [] self = "Tritanopia" ->
           New(<< 95000, 50000, 0 >>, << 0, 43333, 56667 >>, << 0, 47500, 52500 >>)
      [] self = "Tritanomaly" ->
           New(<< 96667, 33333, 0 >>, << 0, 73333, 26667 >>, << 0, 18333, 81667 >>)
      [] self = "Achromatopsia" ->
           New(<< 29900, 58700, 11400 >>, << 29900, 58700, 11400 >>,
               << 29900, 58700, 11400 >>)
      [] self = "Achromatomaly" ->
           New(<< 61800, 32000, 62000 >>, << 16300, 77500, 62000 >>,
               << 16300, 32000, 51600 >>)

\* a plausible slip in the table: a decimal point one place off, .625 as 6.25
percentagesMisplacedPoint(self) ==
    CASE self = "Normal" ->
           New(<< 100000, 0, 0 >>, << 0, 100000, 0 >>, << 0, 0, 100000 >>)
      [] self = "Protanopia" ->
           New(<< 56667, 43333, 0 >>, << 55833, 44167, 0 >>, << 0, 24167, 75833 >>)
      [] self = "Protanomaly" ->
           New(<< 81667, 18333, 0 >>, << 33333, 66667, 0 >>, << 0, 12500, 87500 >>)
      [] self = "Deuteranopia" ->
           New(<< 625000, 37500, 0 >>, << 70000, 30000, 0 >>, << 0, 30000, 70000 >>)
      [] self = "Deuteranomaly" ->
           New(<< 80000, 20000, 0 >>, << 25833, 74167, 0 >>, << 0, 14167, 85833 >>)
      [] self = "Tritanopia" ->
           New(<< 95000, 50000, 0 >>, << 0, 43333, 56667 >>, << 0, 47500, 52500 >>)
      [] self = "Tritanomaly" ->
           New(<< 96667, 33330, 0 >>, << 0, 73333, 26667 >>, << 0, 18333, 81667 >>)
      [] self = "Achromatopsia" ->
           New(<< 29900, 58700, 11400 >>, << 29900, 58700, 11400 >>,
               << 29900, 58700, 11400 >>)
      [] self = "Achromatomaly" ->
           New(<< 61800, 32000, 62000 >>, << 16300, 77500, 62000 >>,
               << 16300, 32000, 51600 >>)

\* ColorBlindnessMode::percentages
percentages(self) ==
    CASE self = "Normal" ->
           \* Vec3::X, Vec3::Y, Vec3::Z
           New(<< 100000, 0, 0 >>, << 0, 100000, 0 >>, << 0, 0, 100000 >>)
      [] self = "Protanopia" ->
           New(<< 56667, 43333, 0 >>, << 55833, 44167, 0 >>, << 0, 24167, 75833 >>)
      [] self = "Protanomaly" ->
           New(<< 81667, 18333, 0 >>, << 33333, 66667, 0 >>, << 0, 12500, 87500 >>)
      [] self = "Deuteranopia" ->
           New(<< 62500, 37500, 0 >>, << 70000, 30000, 0 >>, << 0, 30000, 70000 >>)
      [] self = "Deuteranomaly" ->
           New(<< 80000, 20000, 0 >>, << 25833, 74167, 0 >>, << 0, 14167, 85833 >>)
      [] self = "Tritanopia" ->
           New(<< 95000, 50000, 0 >>, << 0, 43333, 56667 >>, << 0, 47500, 52500 >>)
      [] self = "Tritanomaly" ->
           New(<< 96667, 33330, 0 >>, << 0, 73333, 26667 >>, << 0, 18333, 81667 >>)
      [] self = "Achromatopsia" ->
           New(<< 29900, 58700, 11400 >>, << 29900, 58700, 11400 >>,
               << 29900, 58700, 11400 >>)
      [] self = "Achromatomaly" ->
           New(<< 61800, 32000, 62000 >>, << 16300, 77500, 62000 >>,
               << 16300, 32000, 51600 >>)

\* a plausible slip in the match: Tritanomaly skips Achromatopsia
cycleSkipping(self) ==
    CASE self = "Normal" -> "Protanopia"
      [] self = "Protanopia" -> "Protanomaly"
      [] self = "Protanomaly" -> "Deuteranopia"
      [] self = "Deuteranopia" -> "Deuteranomaly"
      [] self = "Deuteranomaly" -> "Tritanopia"
      [] self = "Tritanopia" -> "Tritanomaly"
      [] self = "Tritanomaly" -> "Achromatomaly"
      [] self = "Achromatopsia" -> "Achromatomaly"
      [] self = "Achromatomaly" -> "Normal"

\* ColorBlindnessMode::cycle: the value *self is replaced by
cycle(self) ==
    CASE self = "Normal" -> "Protanopia"
      [] self = "Protanopia" -> "Protanomaly"
      [] self = "Protanomaly" -> "Deuteranopia"
      [] self = "Deuteranopia" -> "Deuteranomaly"
      [] self = "Deuteranomaly" -> "Tritanopia"
      [] self = "Tritanopia" -> "Tritanomaly"
      [] self = "Tritanomaly" -> "Achromatopsia"
      [] self = "Achromatopsia" -> "Achromatomaly"
      [] self = "Achromatomaly" -> "Normal"

\* ------------------------------------------------------------------------
\* State
\* ------------------------------------------------------------------------

\* the camera entities of the 3D render graph (each is a view)
Cameras == { "A", "B" }

\* the cameras the application of Spec attaches the effect to; the other
\* camera stays a plain 3D camera
MainCameras == { "A" }

\* the modes the application of SpecMulti passes to set_mode
ModeInputs == { "Deuteranomaly", "Tritanopia" }

\* Option::None / an absent component, and Some(x) / a present one
None == << >>

Some(x) == << x >>

\* the value inside a Some
Unwrap(o) == o[1]

VARIABLES
    \* main world ---------------------------------------------------------
    camera,           \* ColorBlindnessCamera of each entity: Some([mode, enabled]) or None
    cameraChanged,    \* Changed<ColorBlindnessCamera> as update_percentages sees it
    settings,         \* ColorBlindnessPostProcess of each entity: Some([percentages]) or None
    settingsChanged,  \* ColorBlindnessPostProcess was written through Mut since inserted
    seen,             \* ColorBlindnessCamera as it was when update_percentages last ran
    \* Update schedule of the current frame ---------------------------------
    phase,            \* "Update" (main world schedule) or "Render" (render world)
    updateRan,        \* update_percentages has run in this frame
    processed,        \* entities the loop body of update_percentages ran for
    sameValue,        \* those of them whose mode and enabled were as in seen
    \* render world -------------------------------------------------------
    extracted,        \* ExtractComponentPlugin: this frame's copy of each component
    uniforms,         \* ComponentUniforms: the uniform buffer, one entry per component
    view_target,      \* the view entity matches the node's query this frame
    pipelineReady,    \* PipelineCache::get_render_pipeline returns Some
    main_texture,     \* index of each ViewTarget's current main texture
    passes,           \* the pass encoded for each view: the texture bound as input
                      \* (source), its color attachment (destination), the uniform read
    nodeRan,          \* views for which PostProcessNode::run returned Ok(())
    \* table walk (SpecTable) -----------------------------------------------
    tStart,           \* the mode the walk started from
    tMode,            \* the mode after tCount calls of cycle()
    tCount,           \* how many times cycle() was applied
    tPercentages,     \* tMode.percentages()
    \* the scripted application (SpecScript) ----------------------------------
    scriptStep,       \* the call the scripted application makes next
    scriptMode,       \* the mode it gives its camera before disabling it
    scriptCycles      \* how many times it has called cycle() since

mainVars == << camera, cameraChanged, settings, settingsChanged, seen >>
frameVars == << phase, updateRan, processed, sameValue >>
renderVars == << extracted, uniforms, view_target, pipelineReady,
                 main_texture, passes, nodeRan >>
tableVars == << tStart, tMode, tCount, tPercentages >>
scriptVars == << scriptStep, scriptMode, scriptCycles >>
vars == << mainVars, frameVars, renderVars, tableVars, scriptVars >>

\* #[derive(Default)] on ColorBlindnessCamera: mode Normal (#[default]), enabled false
DefaultCamera == [ mode |-> "Normal", enabled |-> FALSE ]

\* #[derive(Default)] on ColorBlindnessPostProcess
DefaultPostProcess == [ percentages |-> DefaultPercentages ]

\* the world after setup: two 3D cameras, no effect component attached yet,
\* the render pipeline queued (PostProcessPipeline::from_world) but not compiled
InitWorld ==
    /\ camera = [ c \in Cameras |-> None ]
    /\ cameraChanged = [ c \in Cameras |-> FALSE ]
    /\ settings = [ c \in Cameras |-> None ]
    /\ settingsChanged = [ c \in Cameras |-> FALSE ]
    /\ seen = [ c \in Cameras |-> None ]
    /\ phase = "Update"
    /\ updateRan = FALSE
    /\ processed = {}
    /\ sameValue = {}
    /\ extracted = [ c \in Cameras |-> None ]
    /\ uniforms = << >>
    /\ view_target = [ c \in Cameras |-> FALSE ]
    /\ pipelineReady = FALSE
    /\ main_texture = [ c \in Cameras |-> 0 ]
    /\ passes = [ c \in Cameras |-> None ]
    /\ nodeRan = {}

\* no scripted application
NoScript ==
    /\ scriptStep = "off"
    /\ scriptMode = "Normal"
    /\ scriptCycles = 0

\* no table walk
NoTable ==
    /\ tStart = "Normal"
    /\ tMode = "Normal"
    /\ tCount = 0
    /\ tPercentages = percentages("Normal")

InitTable ==
    /\ InitWorld
    /\ NoScript
    /\ tStart \in ColorBlindnessMode
    /\ tMode = tStart
    /\ tCount = 0
    /\ tPercentages = percentages(tStart)

Init ==
    /\ InitWorld
    /\ NoTable
    /\ NoScript

\* the scripted application starts in the world after setup, with any mode
InitScript ==
    /\ InitWorld
    /\ NoTable
    /\ scriptStep = "insert"
    /\ scriptMode \in ColorBlindnessMode
    /\ scriptCycles = 0

\* ------------------------------------------------------------------------
\* Main world: the application's systems                     (src/src/lib.rs)
\* ------------------------------------------------------------------------

\* commands.entity(c).insert(ColorBlindnessCamera::default()): an inserted
\* component counts as changed for every system that has not seen it
InsertCamera(c) ==
    /\ phase = "Update"
    /\ camera[c] = None
    /\ camera' = [ camera EXCEPT ![c] = Some(DefaultCamera) ]
    /\ cameraChanged' = [ cameraChanged EXCEPT ![c] = TRUE ]
    /\ UNCHANGED << settings, settingsChanged, seen >>
    /\ UNCHANGED << frameVars, renderVars, tableVars >>

\* commands.entity(c).insert(ColorBlindnessPostProcess::default())
InsertPostProcess(c) ==
    /\ phase = "Update"
    /\ settings[c] = None
    /\ settings' = [ settings EXCEPT ![c] = Some(DefaultPostProcess) ]
    /\ settingsChanged' = [ settingsChanged EXCEPT ![c] = FALSE ]
    /\ UNCHANGED << camera, cameraChanged, seen >>
    /\ UNCHANGED << frameVars, renderVars, tableVars >>

\* camera.mode = m through Mut<ColorBlindnessCamera>: the write access marks the
\* component changed, whatever value is written
SetMode(c, m) ==
    /\ phase = "Update"
    /\ camera[c] # None
    /\ camera' = [ camera EXCEPT ![c][1].mode = m ]
    /\ cameraChanged' = [ cameraChanged EXCEPT ![c] = TRUE ]
    /\ UNCHANGED << settings, settingsChanged, seen >>
    /\ UNCHANGED << frameVars, renderVars, tableVars >>

\* a slip: the field written without marking the component changed
\* (bypass_change_detection)
SetEnabledUnmarked(c, b) ==
    /\ phase = "Update"
    /\ camera[c] # None
    /\ camera' = [ camera EXCEPT ![c][1].enabled = b ]
    /\ UNCHANGED << cameraChanged, settings, settingsChanged, seen >>
    /\ UNCHANGED << frameVars, renderVars, tableVars >>

\* camera.enabled = b through Mut<ColorBlindnessCamera>, as in
\* camera.enabled = input.pressed(KeyCode::Space)
SetEnabled(c, b) ==
    /\ phase = "Update"
    /\ camera[c] # None
    /\ camera' = [ camera EXCEPT ![c][1].enabled = b ]
    /\ cameraChanged' = [ cameraChanged EXCEPT ![c] = TRUE ]
    /\ UNCHANGED << settings, settingsChanged, seen >>
    /\ UNCHANGED << frameVars, renderVars, tableVars >>

\* camera.mode.cycle() through Mut<ColorBlindnessCamera>
\* a cycle step that also flips the camera's enabled flag
CycleFlippingEnabled(c) ==
    /\ phase = "Update"
    /\ camera[c] # None
    /\ camera' = [ camera EXCEPT ![c][1] =
                      [ mode |-> cycle(Unwrap(camera[c]).mode),
                        enabled |-> ~Unwrap(camera[c]).enabled ] ]
    /\ cameraChanged' = [ cameraChanged EXCEPT ![c] = TRUE ]
    /\ UNCHANGED << settings, settingsChanged, seen >>
    /\ UNCHANGED << frameVars, renderVars, tableVars >>

Cycle(c) ==
    /\ phase = "Update"
    /\ camera[c] # None
    /\ camera' = [ camera EXCEPT ![c][1].mode = cycle(Unwrap(camera[c]).mode) ]
    /\ cameraChanged' = [ cameraChanged EXCEPT ![c] = TRUE ]
    /\ UNCHANGED << settings, settingsChanged, seen >>
    /\ UNCHANGED << frameVars, renderVars, tableVars >>

\* ------------------------------------------------------------------------
\* update_percentages                                     (src/src/plugin.rs)
\* ------------------------------------------------------------------------

\* a slip: the Changed<ColorBlindnessCamera> filter left out of the query
QueryUnfiltered ==
    { c \in Cameras : settings[c] # None /\ camera[c] # None }

\* the entities the query of update_percentages yields:
\* (&mut ColorBlindnessPostProcess, &ColorBlindnessCamera), Changed<ColorBlindnessCamera>
Query ==
    { c \in Cameras : settings[c] # None /\ camera[c] # None /\ cameraChanged[c] }

\* a slip: camera.enabled not consulted
EffectiveModeIgnoringEnabled(cam) == cam.mode

\* the loop body: the mode the percentages are taken from
EffectiveMode(cam) == IF cam.enabled THEN cam.mode ELSE "Normal"

\* the system, run once per frame in the Update schedule with no ordering
\* against the application's systems of that schedule. Its run ends the
\* "changed" window of every ColorBlindnessCamera, matched by the query or not.
update_percentages ==
    /\ phase = "Update"
    /\ ~updateRan
    /\ settings' = [ c \in Cameras |->
                       IF c \in Query
                         THEN Some([ percentages |->
                                     percentages(EffectiveMode(Unwrap(camera[c]))) ])
                         ELSE settings[c] ]
    /\ settingsChanged' = [ c \in Cameras |-> settingsChanged[c] \/ c \in Query ]
    /\ processed' = Query
    /\ sameValue' = { c \in Query : seen[c] = camera[c] }
    /\ cameraChanged' = [ c \in Cameras |-> FALSE ]
    /\ seen' = camera
    /\ updateRan' = TRUE
    /\ UNCHANGED << camera, phase >>
    /\ UNCHANGED << renderVars, tableVars >>

\* ------------------------------------------------------------------------
\* Render world                                           (src/src/plugin.rs)
\* ------------------------------------------------------------------------

\* ExtractComponentPlugin<ColorBlindnessPostProcess>: after the main schedule,
\* every entity's component is copied (Clone, Copy) into the render world
Extract ==
    /\ phase = "Update"
    /\ updateRan
    /\ extracted' = [ c \in Cameras |->
                        IF settings[c] = None
                          THEN None
                          ELSE Some(Unwrap(settings[c]).percentages) ]
    /\ phase' = "Prepare"
    /\ UNCHANGED << updateRan, processed, sameValue >>
    /\ UNCHANGED << uniforms, view_target, pipelineReady, main_texture, passes, nodeRan >>
    /\ UNCHANGED << mainVars, tableVars >>

\* the pipeline queued by PostProcessPipeline::from_world finishes compiling
PipelineCompiled ==
    /\ phase = "Prepare"
    /\ ~pipelineReady
    /\ pipelineReady' = TRUE
    /\ UNCHANGED << extracted, uniforms, view_target, main_texture, passes, nodeRan >>
    /\ UNCHANGED << mainVars, frameVars, tableVars >>

\* the orders in which the entities of S can be written to the buffer
Orders(S) ==
    { o \in [ 1 .. Cardinality(S) -> S ] :
        \A i, j \in 1 .. Cardinality(S) : i # j => o[i] # o[j] }

\* UniformComponentPlugin<ColorBlindnessPostProcess>: the extracted components are
\* written one after the other into one uniform buffer, in the order the query
\* yields their entities. The view targets of the frame are prepared too: an
\* inactive camera has none, and the nodes that precede this one in the graph
\* (TONEMAPPING) may have flipped a view's main texture already.
Prepare ==
    /\ phase = "Prepare"
    /\ \E o \in Orders({ c \in Cameras : extracted[c] # None }) :
         uniforms' = [ i \in DOMAIN o |-> Unwrap(extracted[o[i]]) ]
    /\ view_target' \in [ Cameras -> BOOLEAN ]
    /\ main_texture' \in { t \in [ Cameras -> { 0, 1 } ] :
                             \A c \in Cameras : ~view_target'[c] => t[c] = 0 }
    /\ phase' = "Render"
    /\ UNCHANGED << updateRan, processed, sameValue >>
    /\ UNCHANGED << extracted, pipelineReady, passes, nodeRan >>
    /\ UNCHANGED << mainVars, tableVars >>

\* settings_uniforms.uniforms().binding(): the whole buffer, if it was allocated
SettingsBinding == IF uniforms = << >> THEN None ELSE Some(uniforms)

\* what the shader reads through binding 2: the layout entry has
\* has_dynamic_offset: false and set_bind_group passes no offsets (&[]), so the
\* uniform is read at offset 0 of the bound buffer
BoundSettings(settings_binding) == Unwrap(settings_binding)[1]

\* a slip: post_process_write() taken before the resources are looked up
RunWritingEarly(view_entity) ==
    /\ phase = "Render"
    /\ view_entity \notin nodeRan
    /\ nodeRan' = nodeRan \cup { view_entity }
    /\ IF ~view_target[view_entity]
         THEN UNCHANGED << main_texture, passes >>
         ELSE /\ main_texture' =
                   [ main_texture EXCEPT ![view_entity] = 1 - main_texture[view_entity] ]
              /\ IF ~pipelineReady \/ SettingsBinding = None
                   THEN UNCHANGED passes
                   ELSE passes' = [ passes EXCEPT ![view_entity] =
                          Some([ source |-> main_texture[view_entity],
                                 destination |-> 1 - main_texture[view_entity],
                                 uniform |-> BoundSettings(SettingsBinding) ]) ]
    /\ UNCHANGED << extracted, uniforms, view_target, pipelineReady >>
    /\ UNCHANGED << mainVars, frameVars, tableVars >>

\* a slip: the render pass attached to post_process.source
RunWritingSource(view_entity) ==
    /\ phase = "Render"
    /\ view_entity \notin nodeRan
    /\ nodeRan' = nodeRan \cup { view_entity }
    /\ IF ~view_target[view_entity] \/ ~pipelineReady \/ SettingsBinding = None
         THEN UNCHANGED << main_texture, passes >>
         ELSE /\ main_texture' =
                   [ main_texture EXCEPT ![view_entity] = 1 - main_texture[view_entity] ]
              /\ passes' = [ passes EXCEPT ![view_entity] =
                   Some([ source |-> main_texture[view_entity],
                          destination |-> main_texture[view_entity],
                          uniform |-> BoundSettings(SettingsBinding) ]) ]
    /\ UNCHANGED << extracted, uniforms, view_target, pipelineReady >>
    /\ UNCHANGED << mainVars, frameVars, tableVars >>

\* PostProcessNode::run for one view of the 3D graph
Run(view_entity) ==
    /\ phase = "Render"
    /\ view_entity \notin nodeRan
    /\ nodeRan' = nodeRan \cup { view_entity }
    /\ IF \/ ~view_target[view_entity]     \* let Ok(view_target) = ... else return Ok(())
          \/ ~pipelineReady                \* let Some(pipeline) = ... else return Ok(())
          \/ SettingsBinding = None        \* let Some(settings_binding) = ... else return Ok(())
         THEN UNCHANGED << main_texture, passes >>
         ELSE \* post_process_write(): source is the current main texture, and the
              \* main texture flips to destination
              /\ main_texture' =
                   [ main_texture EXCEPT ![view_entity] = 1 - main_texture[view_entity] ]
              \* the bind group (source, sampler, settings) and the render pass
              \* drawing the fullscreen triangle into destination
              /\ passes' = [ passes EXCEPT ![view_entity] =
                   Some([ source |-> main_texture[view_entity],
                          destination |-> 1 - main_texture[view_entity],
                          uniform |-> BoundSettings(SettingsBinding) ]) ]
    /\ UNCHANGED << extracted, uniforms, view_target, pipelineReady >>
    /\ UNCHANGED << mainVars, frameVars, tableVars >>

\* the frame ends once the graph has run for every view: the render world's
\* entities are cleared, the view targets and the uniform buffer are rebuilt
\* by the next frame, and the main schedule runs again
EndFrame ==
    /\ phase = "Render"
    /\ nodeRan = Cameras
    /\ phase' = "Update"
    /\ updateRan' = FALSE
    /\ processed' = {}
    /\ sameValue' = {}
    /\ extracted' = [ c \in Cameras |-> None ]
    /\ uniforms' = << >>
    /\ view_target' = [ c \in Cameras |-> FALSE ]
    /\ main_texture' = [ c \in Cameras |-> 0 ]
    /\ passes' = [ c \in Cameras |-> None ]
    /\ nodeRan' = {}
    /\ UNCHANGED pipelineReady
    /\ UNCHANGED << mainVars, tableVars >>

\* ------------------------------------------------------------------------
\* Table walk
\* ------------------------------------------------------------------------

\* mode.cycle() followed by mode.percentages()
CycleStep ==
    /\ tCount < MaxCycles
    /\ tMode' = cycle(tMode)
    /\ tCount' = tCount + 1
    /\ tPercentages' = percentages(cycle(tMode))
    /\ UNCHANGED tStart
    /\ UNCHANGED << mainVars, frameVars, renderVars >>

\* ------------------------------------------------------------------------
\* Specifications
\* ------------------------------------------------------------------------

\* an action of a specification without the scripted application
Unscripted(A) == A /\ UNCHANGED scriptVars

\* one camera carries the effect, the application uses the whole API on it
Next ==
    \/ \E c \in MainCameras : Unscripted(InsertCamera(c))
    \/ \E c \in MainCameras : Unscripted(InsertPostProcess(c))
    \/ \E c \in MainCameras, m \in ColorBlindnessMode : Unscripted(SetMode(c, m))
    \/ \E c \in MainCameras, b \in BOOLEAN : Unscripted(SetEnabled(c, b))
    \/ \E c \in MainCameras : Unscripted(Cycle(c))
    \/ Unscripted(update_percentages)
    \/ Unscripted(Extract)
    \/ Unscripted(PipelineCompiled)
    \/ Unscripted(Prepare)
    \/ \E v \in Cameras : Unscripted(Run(v))
    \/ Unscripted(EndFrame)

Spec == Init /\ [][Next]_vars

\* every camera carries the effect, the application sets a few modes
NextMulti ==
    \/ \E c \in Cameras : Unscripted(InsertCamera(c))
    \/ \E c \in Cameras : Unscripted(InsertPostProcess(c))
    \/ \E c \in Cameras, m \in ModeInputs : Unscripted(SetMode(c, m))
    \/ \E c \in Cameras, b \in BOOLEAN : Unscripted(SetEnabled(c, b))
    \/ Unscripted(update_percentages)
    \/ Unscripted(Extract)
    \/ Unscripted(PipelineCompiled)
    \/ Unscripted(Prepare)
    \/ \E v \in Cameras : Unscripted(Run(v))
    \/ Unscripted(EndFrame)

SpecMulti == Init /\ [][NextMulti]_vars

\* the pure functions, walked from every mode
NextTable == Unscripted(CycleStep)

SpecTable == InitTable /\ [][NextTable]_vars

\* ------------------------------------------------------------------------
\* The scripted application: give camera A both components and a mode, disable
\* it, let update_percentages run, call cycle() some number of times over any
\* number of frames, enable it, let update_percentages run
\* ------------------------------------------------------------------------

\* the script moves from step `from` to step `to`
Goes(from, to) ==
    /\ scriptStep = from
    /\ scriptStep' = to
    /\ UNCHANGED << scriptMode, scriptCycles >>

ScriptSetup ==
    \/ InsertCamera("A") /\ Goes("insert", "attach")
    \/ InsertPostProcess("A") /\ Goes("attach", "mode")
    \/ SetMode("A", scriptMode) /\ Goes("mode", "disable")

ScriptDisable == SetEnabled("A", FALSE) /\ Goes("disable", "update")

ScriptCycle ==
    /\ scriptStep = "cycle"
    /\ scriptCycles < MaxScriptCycles
    /\ Cycle("A")
    /\ scriptCycles' = scriptCycles + 1
    /\ UNCHANGED << scriptStep, scriptMode >>

ScriptEnable == SetEnabled("A", TRUE) /\ Goes("cycle", "last update")

\* the frame's run of update_percentages, wherever the script stands
ScriptUpdate ==
    /\ update_percentages
    /\ scriptStep' = CASE scriptStep = "update" -> "cycle"
                       [] scriptStep = "last update" -> "done"
                       [] OTHER -> scriptStep
    /\ UNCHANGED << scriptMode, scriptCycles >>

\* the rest of the frame
ScriptFrame ==
    \/ Unscripted(Extract)
    \/ Unscripted(PipelineCompiled)
    \/ Unscripted(Prepare)
    \/ \E v \in Cameras : Unscripted(Run(v))
    \/ Unscripted(EndFrame)

NextScript ==
    \/ ScriptSetup
    \/ ScriptDisable
    \/ ScriptCycle
    \/ ScriptEnable
    \/ ScriptUpdate
    \/ ScriptFrame

SpecScript == InitScript /\ [][NextScript]_vars

\* ------------------------------------------------------------------------
\* The documented table, cycle order and update rule, as stated
\* ------------------------------------------------------------------------

\* the order of the cycle as documented
ModeOrder ==
    << "Normal", "Protanopia", "Protanomaly", "Deuteranopia", "Deuteranomaly",
       "Tritanopia", "Tritanomaly", "Achromatopsia", "Achromatomaly" >>

IndexOf(m) == CHOOSE i \in DOMAIN ModeOrder : ModeOrder[i] = m

\* the mode k steps after m in ModeOrder, wrapping around
StepsAfter(m, k) == ModeOrder[((IndexOf(m) - 1 + k) % Len(ModeOrder)) + 1]

\* the documented matrix of each mode: red row, green row, blue row
GoldenTable(m) ==
    CASE m = "Normal" ->
           << << 100000, 0, 0 >>, << 0, 100000, 0 >>, << 0, 0, 100000 >> >>
      [] m = "Protanopia" ->
           << << 56667, 43333, 0 >>, << 55833, 44167, 0 >>, << 0, 24167, 75833 >> >>
      [] m = "Protanomaly" ->
           << << 81667, 18333, 0 >>, << 33333, 66667, 0 >>, << 0, 12500, 87500 >> >>
      [] m = "Deuteranopia" ->
           << << 62500, 37500, 0 >>, << 70000, 30000, 0 >>, << 0, 30000, 70000 >> >>
      [] m = "Deuteranomaly" ->
           << << 80000, 20000, 0 >>, << 25833, 74167, 0 >>, << 0, 14167, 85833 >> >>
      [] m = "Tritanopia" ->
           << << 95000, 50000, 0 >>, << 0, 43333, 56667 >>, << 0, 47500, 52500 >> >>
      [] m = "Tritanomaly" ->
           << << 96667, 33330, 0 >>, << 0, 73333, 26667 >>, << 0, 18333, 81667 >> >>
      [] m = "Achromatopsia" ->
           << << 29900, 58700, 11400 >>, << 29900, 58700, 11400 >>,
              << 29900, 58700, 11400 >> >>
      [] m = "Achromatomaly" ->
           << << 61800, 32000, 62000 >>, << 16300, 77500, 62000 >>,
              << 16300, 32000, 51600 >> >>

\* the matrix of normal vision
Identity == << << 100000, 0, 0 >>, << 0, 100000, 0 >>, << 0, 0, 100000 >> >>

\* the documented uniform of a state: disabled overrides the mode
Expected(cam) == IF cam.enabled THEN GoldenTable(cam.mode) ELSE Identity

\* the uniform of an entity that carries one
Uniform(c) == Unwrap(settings[c]).percentages

\* entities that carry both components
Both == { c \in Cameras : camera[c] # None /\ settings[c] # None }

\* this step is the frame's run of update_percentages
UpdateStep == ~updateRan /\ updateRan'

\* ------------------------------------------------------------------------
\* C1
\* ------------------------------------------------------------------------

\* C1 as stated: in every reachable state of an entity that carries the state and
\* the uniform, the uniform equals the documented matrix of the effective mode.
C1_AlwaysInSync ==
    \A c \in Both : Uniform(c) = Expected(Unwrap(camera[c]))

\* C1 as amended: the uniform is the all-zero default until update_percentages
\* first writes it; once written, it equals the documented matrix of the
\* effective mode in every state where ColorBlindnessCamera has not been
\* inserted or written since update_percentages last ran.
C1_InSyncWhenUnchanged ==
    \A c \in Cameras :
        /\ (settings[c] # None /\ ~settingsChanged[c])
              => Uniform(c) = << << 0, 0, 0 >>, << 0, 0, 0 >>, << 0, 0, 0 >> >>
        /\ (c \in Both /\ settingsChanged[c] /\ ~cameraChanged[c])
              => Uniform(c) = Expected(Unwrap(camera[c]))

\* C1 witness: after set_mode, set_enabled and the update, the uniform of an
\* enabled Protanopia camera is the Protanopia matrix.
C1_Witness ==
    /\ "A" \in Both
    /\ settingsChanged["A"]
    /\ ~cameraChanged["A"]
    /\ camera["A"] = Some([ mode |-> "Protanopia", enabled |-> TRUE ])
    /\ Uniform("A") =
         << << 56667, 43333, 0 >>, << 55833, 44167, 0 >>, << 0, 24167, 75833 >> >>

\* ------------------------------------------------------------------------
\* C2
\* ------------------------------------------------------------------------

\* C2: right after update_percentages processes a camera, its uniform is the
\* identity if the camera is disabled, whatever its mode, and the documented
\* matrix of its mode if it is enabled.
C2_UpdateWritesEffective ==
    [][ UpdateStep =>
          \A c \in processed' :
              /\ ~Unwrap(camera[c]).enabled =>
                    Unwrap(settings'[c]).percentages = Identity
              /\ Unwrap(camera[c]).enabled =>
                    Unwrap(settings'[c]).percentages = GoldenTable(Unwrap(camera[c]).mode)
      ]_vars

\* C2 witness: a disabled Tritanopia camera was processed in this frame and its
\* uniform is the identity.
C2_Witness ==
    /\ "A" \in processed
    /\ ~cameraChanged["A"]
    /\ camera["A"] = Some([ mode |-> "Tritanopia", enabled |-> FALSE ])
    /\ Uniform("A") = << << 100000, 0, 0 >>, << 0, 100000, 0 >>, << 0, 0, 100000 >> >>

\* ------------------------------------------------------------------------
\* C3
\* ------------------------------------------------------------------------

\* C3: k calls of cycle() from a mode give the mode k places further in the
\* documented order, wrapping around; the starting mode comes back exactly when
\* k is a multiple of 9.
C3_SingleCycleOfNine ==
    /\ tMode = StepsAfter(tStart, tCount)
    /\ (tMode = tStart) <=> (tCount % 9 = 0)

\* C3 witness: nine calls from Achromatomaly are back at Achromatomaly.
C3_Witness ==
    /\ tStart = "Achromatomaly"
    /\ tCount = 9
    /\ tMode = "Achromatomaly"

\* ------------------------------------------------------------------------
\* C4
\* ------------------------------------------------------------------------

\* C4: percentages() of every mode is the documented matrix of that mode, and
\* the three rows of Achromatopsia are the same row (.299, .587, .114).
C4_GoldenValues ==
    /\ tPercentages = GoldenTable(tMode)
    /\ tMode = "Achromatopsia" =>
          \A i \in 1 .. 3 : tPercentages[i] = << 29900, 58700, 11400 >>

\* C4 witness: the walk reached Tritanomaly by cycle() and holds its matrix,
\* red row (.96667, .3333, 0).
C4_Witness ==
    /\ tCount > 0
    /\ tMode = "Tritanomaly"
    /\ tPercentages[1] = << 96667, 33330, 0 >>

\* ------------------------------------------------------------------------
\* C5
\* ------------------------------------------------------------------------

\* C5 as stated: update_percentages processes a camera only in a frame where the
\* values of mode and enabled differ from those of its previous run; a camera
\* whose fields were re-assigned the values they had is not processed.
C5_ProcessedOnlyOnNewValues == sameValue = {}

\* C5 as amended: update_percentages processes a camera only if its
\* ColorBlindnessCamera was inserted or written since the previous run, and
\* leaves the uniform of every other camera untouched; a re-assignment of the
\* value a field already had is a write, so that camera is processed, and a
\* uniform that was written before is rewritten with the value it had.
C5_ProcessedOnlyOnWrite ==
    [][ UpdateStep =>
          \A c \in Cameras :
              /\ c \in processed' => (c \in Both /\ cameraChanged[c])
              /\ ~cameraChanged[c] => (c \notin processed' /\ settings'[c] = settings[c])
              /\ (c \in Both /\ cameraChanged[c]) => c \in processed'
              /\ (c \in sameValue' /\ settingsChanged[c]) => settings'[c] = settings[c]
      ]_vars

\* C5 witness: a camera whose uniform was written in an earlier frame was
\* processed in this frame although mode and enabled are as they were at the
\* previous run, and its uniform is the matrix of its unchanged state.
C5_Witness ==
    /\ "A" \in sameValue
    /\ ~cameraChanged["A"]
    /\ camera["A"] = Some([ mode |-> "Deuteranopia", enabled |-> TRUE ])
    /\ Uniform("A") =
         << << 62500, 37500, 0 >>, << 70000, 30000, 0 >>, << 0, 30000, 70000 >> >>

\* ------------------------------------------------------------------------
\* C6
\* ------------------------------------------------------------------------

\* C6: a run of update_percentages with no write to any ColorBlindnessCamera
\* since the previous run leaves every uniform as the previous run left it.
C6_SecondRunChangesNothing ==
    [][ (UpdateStep /\ \A c \in Cameras : ~cameraChanged[c]) => settings' = settings ]_vars

\* C6 witness: the run of this frame processed nothing, the camera's uniform was
\* written by an earlier run and is still the Achromatopsia matrix.
C6_Witness ==
    /\ updateRan
    /\ processed = {}
    /\ "A" \in Both
    /\ settingsChanged["A"]
    /\ ~cameraChanged["A"]
    /\ camera["A"] = Some([ mode |-> "Achromatopsia", enabled |-> TRUE ])
    /\ Uniform("A") = << << 29900, 58700, 11400 >>, << 29900, 58700, 11400 >>,
                         << 29900, 58700, 11400 >> >>

\* ------------------------------------------------------------------------
\* C7
\* ------------------------------------------------------------------------

\* C7 as stated: the uniform handed to the render world in a frame is the matrix
\* of the state as the frame's mutations left it, for every camera whose uniform
\* update_percentages has written.
C7_RenderSeesFrameState ==
    phase = "Render" =>
        \A c \in Both :
            settingsChanged[c] => extracted[c] = Some(Expected(Unwrap(camera[c])))

\* ------------------------------------------------------------------------
\* C8
\* ------------------------------------------------------------------------

\* C8 as stated: no pass is encoded for a view that carries neither
\* ColorBlindnessCamera nor ColorBlindnessPostProcess.
C8_NoPassWithoutComponent ==
    \A v \in Cameras : (camera[v] = None /\ settings[v] = None) => passes[v] = None

\* ------------------------------------------------------------------------
\* C9
\* ------------------------------------------------------------------------

\* C9 as stated: when every camera carries its own state and a uniform that
\* update_percentages has written, the pass encoded for a camera reads that
\* camera's own uniform.
C9_PassReadsOwnUniform ==
    (Both = Cameras /\ \A c \in Cameras : settingsChanged[c]) =>
        \A c \in Cameras :
            (passes[c] # None /\ extracted[c] # None)
                => Unwrap(passes[c]).uniform = Unwrap(extracted[c])

\* ------------------------------------------------------------------------
\* C10
\* ------------------------------------------------------------------------

\* the step is PostProcessNode::run for view v
RunStep(v) == v \notin nodeRan /\ v \in nodeRan'

\* a resource of the pass is absent for view v
ResourceAbsent(v) == ~view_target[v] \/ ~pipelineReady \/ uniforms = << >>

\* C10: when the view target, the compiled pipeline or the uniform binding is
\* absent, run returns Ok without flipping the main texture or encoding a pass
\* and without touching the components; when all are present the pass is
\* encoded; and the node runs for every view in every frame.
C10_SkipsWithoutResources ==
    [][ /\ \A v \in Cameras :
              /\ (RunStep(v) /\ ResourceAbsent(v)) =>
                    /\ main_texture' = main_texture
                    /\ passes' = passes
                    /\ camera' = camera
                    /\ settings' = settings
              /\ (RunStep(v) /\ ~ResourceAbsent(v)) => passes'[v] # None
        /\ (phase = "Render" /\ phase' = "Update") => nodeRan = Cameras
      ]_vars

\* C10 witness: the node ran for a view that has a target and a bound uniform
\* while the pipeline was still compiling, and encoded nothing.
C10_Witness ==
    /\ "A" \in nodeRan
    /\ view_target["A"]
    /\ uniforms # << >>
    /\ ~pipelineReady
    /\ passes["A"] = None
    /\ main_texture["A"] = 0

\* ------------------------------------------------------------------------
\* C11
\* ------------------------------------------------------------------------

\* C11: a pass reads the texture that was the view's main texture when run was
\* entered and writes only to the other texture, which becomes the main
\* texture; within the render phase the main texture of a view flips in the
\* step that encodes its pass and in no other step.
C11_PingPong ==
    [][ (phase = "Render" /\ phase' = "Render") =>
          \A v \in Cameras :
              /\ (RunStep(v) /\ passes'[v] # None) =>
                    /\ Unwrap(passes'[v]).source = main_texture[v]
                    /\ Unwrap(passes'[v]).destination # Unwrap(passes'[v]).source
                    /\ main_texture'[v] = Unwrap(passes'[v]).destination
              /\ (main_texture'[v] # main_texture[v]) <=>
                    (RunStep(v) /\ passes[v] = None /\ passes'[v] # None)
      ]_vars

\* C11 witness: a view whose main texture an earlier node had flipped got its
\* pass: it read texture 1, wrote texture 0, and texture 0 is the main texture.
C11_Witness ==
    /\ passes["A"] # None
    /\ Unwrap(passes["A"]).source = 1
    /\ Unwrap(passes["A"]).destination = 0
    /\ main_texture["A"] = 0
    /\ "A" \in nodeRan

\* ------------------------------------------------------------------------
\* C12
\* ------------------------------------------------------------------------

\* C12 as stated: once the frame's main schedule is over, every camera that
\* carries ColorBlindnessCamera carries a ColorBlindnessPostProcess too, holding
\* the matrix update_percentages derived, whether or not the application
\* inserted one.
C12_CameraAloneSuffices ==
    phase = "Render" =>
        \A c \in Cameras :
            camera[c] # None =>
                /\ settings[c] # None
                /\ extracted[c] # None

\* ------------------------------------------------------------------------
\* C13
\* ------------------------------------------------------------------------

\* the sum of a row
RowSum(row) == row[1] + row[2] + row[3]

\* C13 as stated: every row of every matrix sums to 1 within .001, except the
\* red rows of Tritanopia and Tritanomaly, which sum to more than 1.
C13_RowsSumToOne ==
    \A i \in 1 .. 3 :
        IF i = 1 /\ tMode \in { "Tritanopia", "Tritanomaly" }
          THEN RowSum(tPercentages[i]) > 100000
          ELSE /\ RowSum(tPercentages[i]) >= 100000 - 100
               /\ RowSum(tPercentages[i]) <= 100000 + 100

\* ------------------------------------------------------------------------
\* C14
\* ------------------------------------------------------------------------

\* C14: every component of every row of every matrix lies in [0, 1].
C14_ComponentsInUnitInterval ==
    \A i \in 1 .. 3 : \A j \in 1 .. 3 :
        /\ tPercentages[i][j] >= 0
        /\ tPercentages[i][j] <= 100000

\* C14 witness: the walk reached Normal by cycle(), whose matrix holds both
\* ends of the interval.
C14_Witness ==
    /\ tCount > 0
    /\ tMode = "Normal"
    /\ tPercentages[1][1] = 100000
    /\ tPercentages[1][2] = 0

\* ------------------------------------------------------------------------
\* C15
\* ------------------------------------------------------------------------

\* the step changes mode or enabled of camera c
Mutation(c) == camera[c] # None /\ camera'[c] # camera[c]

\* C15: a mutation of a camera that carries both components marks it changed;
\* the mark and the components stay until update_percentages runs; that run
\* writes the matrix of the mutated state; and the main schedule of a frame
\* does not end before update_percentages has run. So the uniform is that of
\* the mutated state after the run of the same frame or, when the mutation
\* came after it, of the next frame.
C15_NoLostMutation ==
    [][ /\ \A c \in Both :
              /\ Mutation(c) => cameraChanged'[c]
              /\ (cameraChanged[c] /\ ~UpdateStep) => (cameraChanged'[c] /\ c \in Both')
              /\ (cameraChanged[c] /\ UpdateStep) =>
                    /\ camera'[c] = camera[c]
                    /\ ~cameraChanged'[c]
                    /\ Unwrap(settings'[c]).percentages = Expected(Unwrap(camera[c]))
        /\ (phase = "Update" /\ phase' # "Update") => updateRan
      ]_vars

\* C15 witness: a camera made Tritanomaly and enabled, values it did not have at
\* the previous run, was processed by this frame's run and holds the
\* Tritanomaly matrix.
C15_Witness ==
    /\ "A" \in processed
    /\ "A" \notin sameValue
    /\ settingsChanged["A"]
    /\ seen["A"] = Some([ mode |-> "Tritanomaly", enabled |-> TRUE ])
    /\ camera["A"] = seen["A"]
    /\ ~cameraChanged["A"]
    /\ Uniform("A") =
         << << 96667, 33330, 0 >>, << 0, 73333, 26667 >>, << 0, 18333, 81667 >> >>

\* ------------------------------------------------------------------------
\* C16
\* ------------------------------------------------------------------------

\* C16 as stated: every run of update_percentages leaves each entity that
\* carries both components with the matrix of its effective mode, whenever
\* and in whatever order the two components were inserted.
C16_FirstRunSyncs ==
    [][ UpdateStep =>
          \A c \in Both :
              Unwrap(settings'[c]).percentages = Expected(Unwrap(camera[c]))
      ]_vars

\* ------------------------------------------------------------------------
\* C17
\* ------------------------------------------------------------------------

\* C17: update_percentages never modifies mode or enabled; cycle() moves mode
\* one place along the order and leaves enabled and the uniform alone; so in
\* the sequence disable, update, cycle k times, enable, update, the uniform is
\* the Normal identity after the update that follows the disabling and stays
\* it through every cycle step and every update performed while disabled, and
\* after the update that follows the enabling the camera is enabled in the
\* k-th mode after m and the uniform is the matrix of that mode.
C17_DisableCycleEnable ==
    [][ /\ UpdateStep => camera' = camera
        /\ (scriptCycles' # scriptCycles) =>
              /\ Unwrap(camera'["A"]).mode = StepsAfter(Unwrap(camera["A"]).mode, 1)
              /\ Unwrap(camera'["A"]).enabled = Unwrap(camera["A"]).enabled
              /\ settings' = settings
              /\ uniforms' = uniforms
        /\ (scriptStep' = "cycle") =>
              /\ ~Unwrap(camera'["A"]).enabled
              /\ Unwrap(camera'["A"]).mode = StepsAfter(scriptMode', scriptCycles')
              /\ Unwrap(settings'["A"]).percentages = Identity
        /\ (scriptStep' = "done") =>
              /\ camera'["A"] = Some([ mode |-> StepsAfter(scriptMode', scriptCycles'),
                                       enabled |-> TRUE ])
              /\ Unwrap(settings'["A"]).percentages =
                    GoldenTable(StepsAfter(scriptMode', scriptCycles'))
      ]_vars

\* C17 witness: the script started from Tritanomaly, cycled ten times while
\* disabled (once round the order and one more), was enabled and updated, and
\* the uniform is the Achromatopsia matrix.
C17_Witness ==
    /\ scriptStep = "done"
    /\ scriptMode = "Tritanomaly"
    /\ scriptCycles = 10
    /\ camera["A"] = Some([ mode |-> "Achromatopsia", enabled |-> TRUE ])
    /\ Uniform("A") =
         << << 29900, 58700, 11400 >>, << 29900, 58700, 11400 >>,
            << 29900, 58700, 11400 >> >>

=============================================================================
